---- MODULE Spec2Model ----
(***************************************************************************)
(* llama-fs: the summarization pipeline of src/src/loader.py, the planner   *)
(* of src/src/tree_generator.py and the watch engine (the Handler of        *)
(* src/watch_utils.py with its processing tick).                           *)
(*                                                                         *)
(* A Python str is modelled as a text: a sequence of tokens, each token a  *)
(* run of characters that the code never splits (a brace, a quoted JSON    *)
(* string, a word of prose).  json.loads is a recursive-descent parser     *)
(* over such texts, find/rfind/slicing are index operations on them.       *)
(***************************************************************************)
EXTENDS Integers, Sequences, FiniteSets, TLC

(***************************************************************************)
(* Texts and JSON values                                                   *)
(***************************************************************************)

\* The quoted string literals that occur in the replies, with their contents.
Unquote ==
    ("\"file_path\"" :> <<"file_path">>) @@
    ("\"summary\"" :> <<"summary">>) @@
    ("\"files\"" :> <<"files">>) @@
    ("\"src_path\"" :> <<"src_path">>) @@
    ("\"dst_path\"" :> <<"dst_path">>) @@
    ("\"/root/a.txt\"" :> <<"/root/", "a.txt">>) @@
    ("\"/root/b.txt\"" :> <<"/root/", "b.txt">>) @@
    ("\"a.txt\"" :> <<"a.txt">>) @@
    ("\"b.txt\"" :> <<"b.txt">>) @@
    ("\"z.txt\"" :> <<"z.txt">>) @@
    ("\"docs/a.txt\"" :> <<"docs/", "a.txt">>) @@
    ("\"notes\"" :> <<"notes">>) @@
    ("\"\"" :> <<>>)

StringToks == DOMAIN Unquote
NumToks == {"0", "5"}
Whitespace == {" "}

Quote(txt) == CHOOSE t \in StringToks : Unquote[t] = txt

JNull == [kind |-> "null", text |-> <<>>, items |-> <<>>, members |-> <<>>]
JNum(tok) == [kind |-> "num", text |-> <<tok>>, items |-> <<>>, members |-> <<>>]
JStr(txt) == [kind |-> "str", text |-> txt, items |-> <<>>, members |-> <<>>]
JArr(its) == [kind |-> "arr", text |-> <<>>, items |-> its, members |-> <<>>]
JObj(mems) == [kind |-> "obj", text |-> <<>>, items |-> <<>>, members |-> mems]
Member(k, v) == [key |-> k, val |-> v]

\* dict operations: a later duplicate key overrides an earlier one.
DictHas(d, k) == \E i \in 1..Len(d.members) : d.members[i].key = k
DictGet(d, k) ==
    LET i == CHOOSE j \in 1..Len(d.members) :
                 /\ d.members[j].key = k
                 /\ \A l \in (j + 1)..Len(d.members) : d.members[l].key /= k
    IN  d.members[i].val
DictGetDefault(d, k, default) == IF DictHas(d, k) THEN DictGet(d, k) ELSE default

\* str.find / str.rfind of a one-character pattern, 1-based, 0 when absent
\* (Python: 0-based, -1 when absent).
Find(s, tok) ==
    IF \E i \in 1..Len(s) : s[i] = tok
    THEN CHOOSE i \in 1..Len(s) : s[i] = tok /\ \A j \in 1..(i - 1) : s[j] /= tok
    ELSE 0
RFind(s, tok) ==
    IF \E i \in 1..Len(s) : s[i] = tok
    THEN CHOOSE i \in 1..Len(s) : s[i] = tok /\ \A j \in (i + 1)..Len(s) : s[j] /= tok
    ELSE 0
Contains(s, tok) == \E i \in 1..Len(s) : s[i] = tok

RECURSIVE LStrip(_)
LStrip(s) == IF s /= <<>> /\ Head(s) \in Whitespace THEN LStrip(Tail(s)) ELSE s
RECURSIVE RStrip(_)
RStrip(s) ==
    IF s /= <<>> /\ s[Len(s)] \in Whitespace THEN RStrip(SubSeq(s, 1, Len(s) - 1)) ELSE s
\* str.strip()
Strip(s) == RStrip(LStrip(s))

(***************************************************************************)
(* json.loads                                                              *)
(***************************************************************************)
ParseFail == [ok |-> FALSE, val |-> JNull, rest |-> <<>>]
ParseOk(v, r) == [ok |-> TRUE, val |-> v, rest |-> r]

RECURSIVE ParseValue(_), ParseMembers(_, _), ParseItems(_, _)
ParseValue(ts) ==
    IF ts = <<>> THEN ParseFail
    ELSE LET h == Head(ts)
             t == Tail(ts)
         IN  CASE h = "{" -> IF t /= <<>> /\ Head(t) = "}"
                             THEN ParseOk(JObj(<<>>), Tail(t))
                             ELSE ParseMembers(t, <<>>)
               [] h = "[" -> IF t /= <<>> /\ Head(t) = "]"
                             THEN ParseOk(JArr(<<>>), Tail(t))
                             ELSE ParseItems(t, <<>>)
               [] h \in StringToks -> ParseOk(JStr(Unquote[h]), t)
               [] h \in NumToks -> ParseOk(JNum(h), t)
               [] h = "null" -> ParseOk(JNull, t)
               [] OTHER -> ParseFail
\* after "{" or ",": string ":" value, then "," or "}"
ParseMembers(ts, acc) ==
    IF Len(ts) < 2 \/ Head(ts) \notin StringToks \/ ts[2] /= ":" THEN ParseFail
    ELSE LET v == ParseValue(SubSeq(ts, 3, Len(ts)))
             got == Append(acc, Member(Unquote[Head(ts)], v.val))
         IN  IF ~v.ok \/ v.rest = <<>> THEN ParseFail
             ELSE IF Head(v.rest) = "}" THEN ParseOk(JObj(got), Tail(v.rest))
             ELSE IF Head(v.rest) = "," THEN ParseMembers(Tail(v.rest), got)
             ELSE ParseFail
\* after "[" or ",": value, then "," or "]"
ParseItems(ts, acc) ==
    LET v == ParseValue(ts)
        got == Append(acc, v.val)
    IN  IF ~v.ok \/ v.rest = <<>> THEN ParseFail
        ELSE IF Head(v.rest) = "]" THEN ParseOk(JArr(got), Tail(v.rest))
        ELSE IF Head(v.rest) = "," THEN ParseItems(Tail(v.rest), got)
        ELSE ParseFail

NoWhitespace(s) == SelectSeq(s, LAMBDA t : t \notin Whitespace)

\* json.loads(s): [ok, val]; ok = FALSE stands for json.JSONDecodeError.
\* Whitespace between tokens is skipped, anything after the value is an error.
JsonLoads(s) ==
    LET p == ParseValue(NoWhitespace(s))
    IN  IF p.ok /\ p.rest = <<>> THEN [ok |-> TRUE, val |-> p.val]
        ELSE [ok |-> FALSE, val |-> JNull]

\* json.dumps, used to build the replies a model can send.
RECURSIVE Render(_), RenderMembers(_), RenderItems(_)
Render(v) ==
    CASE v.kind = "null" -> <<"null">>
      [] v.kind = "num" -> v.text
      [] v.kind = "str" -> <<Quote(v.text)>>
      [] v.kind = "arr" -> <<"[">> \o RenderItems(v.items) \o <<"]">>
      [] v.kind = "obj" -> <<"{">> \o RenderMembers(v.members) \o <<"}">>
RenderMembers(ms) ==
    IF ms = <<>> THEN <<>>
    ELSE <<Quote(Head(ms).key), ":">> \o Render(Head(ms).val)
         \o (IF Len(ms) > 1 THEN <<",", " ">> ELSE <<>>) \o RenderMembers(Tail(ms))
RenderItems(its) ==
    IF its = <<>> THEN <<>>
    ELSE Render(Head(its))
         \o (IF Len(its) > 1 THEN <<",", " ">> ELSE <<>>) \o RenderItems(Tail(its))

(***************************************************************************)
(* Python values and exceptions                                            *)
(***************************************************************************)
\* The outcome of evaluating Python code: a value, or a raised exception.
Returned(v) == [exc |-> "none", val |-> v]
Raised(e) == [exc |-> e, val |-> JNull]

\* bool(v): None, 0, "", [] and {} are falsy.
Truthy(v) ==
    CASE v.kind = "null" -> FALSE
      [] v.kind = "num" -> v.text /= <<"0">>
      [] v.kind = "str" -> v.text /= <<>>
      [] v.kind = "arr" -> v.items /= <<>>
      [] v.kind = "obj" -> v.members /= <<>>

\* v[k] for a string key k: only a dict can be subscripted by a string.
Subscript(v, k) ==
    IF v.kind /= "obj" THEN Raised("TypeError")
    ELSE IF ~DictHas(v, k) THEN Raised("KeyError")
    ELSE Returned(DictGet(v, k))

\* len(s) in characters
RECURSIVE TextLen(_)
TextLen(s) == IF s = <<>> THEN 0 ELSE Len(Head(s)) + TextLen(Tail(s))

IsPrefix(pat, s) == Len(pat) <= Len(s) /\ SubSeq(s, 1, Len(pat)) = pat
\* s.replace(pat, ""): the non-overlapping occurrences, left to right
RECURSIVE Remove(_, _)
Remove(s, pat) ==
    IF s = <<>> THEN <<>>
    ELSE IF IsPrefix(pat, s) THEN Remove(SubSeq(s, Len(pat) + 1, Len(s)), pat)
    ELSE <<Head(s)>> \o Remove(Tail(s), pat)

K_file_path == <<"file_path">>
K_file_name == <<"file_name">>
K_summary == <<"summary">>
K_files == <<"files">>
K_src_path == <<"src_path">>
K_dst_path == <<"dst_path">>
Unknown == JStr(<<"unknown">>)

(***************************************************************************)
(* loader.extract_json_from_response                                       *)
(***************************************************************************)
MinSummaryLen == 10
MaxSummaryLen == 500

\* Mutant: the file name is preferred to the file path.
DocPath_NameFirst(doc) ==
    DictGetDefault(doc, K_file_name, DictGetDefault(doc, K_file_path, Unknown))

\* doc.get("file_path", doc.get("file_name", "unknown"))
DocPath(doc) == DictGetDefault(doc, K_file_path, DictGetDefault(doc, K_file_name, Unknown))

\* content[start:end] for start = find("{"), end = rfind("}") + 1
BraceSlice(content) == SubSeq(content, Find(content, "{"), RFind(content, "}"))

\* stage 2: the text from the first "{" to the last "}", when it parses
ExtractEmbedded(content) ==
    IF Contains(content, "{") /\ Contains(content, "}")
       /\ RFind(content, "}") > Find(content, "{") - 1
    THEN JsonLoads(BraceSlice(content))
    ELSE [ok |-> FALSE, val |-> JNull]

CleanContent(content) ==
    Remove(Remove(Strip(Remove(content, <<"'", "file_path", "'">>)), <<"{", "'">>),
           <<"'", "}">>)

FallbackSummaryText(content) ==
    IF Strip(content) /= <<>>
    THEN IF MinSummaryLen < TextLen(CleanContent(content))
            /\ TextLen(CleanContent(content)) < MaxSummaryLen
         THEN CleanContent(content)
         ELSE <<"Document content processed">>
    ELSE <<"File content analyzed">>

FallbackRecord(content, fallback_doc) ==
    JObj(<<Member(K_file_path, IF Truthy(fallback_doc) THEN DocPath(fallback_doc) ELSE Unknown),
           Member(K_summary, JStr(FallbackSummaryText(content)))>>)

\* Mutant: the text between the braces is never tried.
extract_json_from_response_NoEmbedded(content, fallback_doc) ==
    IF JsonLoads(content).ok THEN JsonLoads(content).val
    ELSE FallbackRecord(content, fallback_doc)

extract_json_from_response(content, fallback_doc) ==
    IF JsonLoads(content).ok THEN JsonLoads(content).val
    ELSE IF ExtractEmbedded(content).ok THEN ExtractEmbedded(content).val
    ELSE FallbackRecord(content, fallback_doc)

(***************************************************************************)
(* Inputs: documents and model replies                                     *)
(***************************************************************************)
PathA == <<"/root/", "a.txt">>
PathB == <<"/root/", "b.txt">>
NameA == <<"a.txt">>
NameB == <<"b.txt">>
Notes == <<"notes">>

\* The dicts handed to summarize_document: {"content": ..., **metadata}.
TextDocs ==
    { JObj(<<Member(<<"content">>, JStr(Notes)), Member(K_file_path, JStr(PathA)),
             Member(K_file_name, JStr(NameA))>>),
      JObj(<<Member(<<"content">>, JStr(Notes)), Member(K_file_path, JStr(PathB))>>),
      JObj(<<Member(<<"content">>, JStr(Notes)), Member(K_file_name, JStr(NameA))>>),
      JObj(<<Member(<<"content">>, JStr(Notes))>>) }

SummaryObj(p, s) == JObj(<<Member(K_file_path, JStr(p)), Member(K_summary, JStr(s))>>)

\* JSON values a model can put in its reply to the summary prompt.
SummaryValues ==
    { SummaryObj(PathA, Notes), SummaryObj(PathB, Notes), SummaryObj(NameA, <<>>),
      JObj(<<Member(K_file_path, JStr(PathA))>>),
      JObj(<<Member(K_summary, JStr(Notes))>>),
      JObj(<<>>), JArr(<<>>), JArr(<<SummaryObj(PathA, Notes)>>),
      JNum("5"), JStr(Notes), JNull }

\* The markdown code fence (three backquotes), one token.
Fence == "FENCE"
Fenced(v) ==
    <<Fence, "json", " ">> \o Render(v) \o <<" ", Fence, " ", "Additional", " ", "text">>
InProse(v) == <<"Here", " ", "is", " ", "the", " ", "summary", ":", " ">> \o Render(v) \o <<" ", "done">>
Truncated(v) == { SubSeq(Render(v), 1, k) : k \in 1..(Len(Render(v)) - 1) }

FreeTexts ==
    { <<"Invalid", " ", "JSON", " ", "response">>, <<"ok">>, <<>>, <<" ">>,
      <<"}", " ", "closing", " ", "before", " ", "opening", " ", "{">>,
      <<"{", "'", "file_path", "'", ":", " ", "'", "a.txt", "'", ",", " ", "'", "summary",
        "'", ":", " ", "'", "notes", "'", "}">>,
      <<"The", " ", "file", " ", "holds", " ", "{", "meeting", "}", " ", "notes">> }

SummaryReplies ==
    { Render(v) : v \in SummaryValues } \cup { Fenced(v) : v \in SummaryValues }
    \cup { InProse(v) : v \in SummaryValues }
    \cup UNION { Truncated(v) : v \in {SummaryObj(PathA, Notes), JArr(<<>>)} }
    \cup FreeTexts

\* Free texts just below, at and just above the two length limits of the
\* fallback summary, and one with whitespace around it.
Ten == "xxxxxxxxxx"
Hundred == "xxxxxxxxxxxxxxxxxxxxxxxxxxxxxxxxxxxxxxxxxxxxxxxxxxxxxxxxxxxxxxxxxxxxxxxxxxxxxxxxxxxxxxxxxxxxxxxxxxxx"
\* a text of n characters
Chars(n) ==
    [i \in 1..(n \div 100) |-> Hundred] \o [i \in 1..((n % 100) \div 10) |-> Ten]
    \o [i \in 1..(n % 10) |-> "x"]
LengthTexts ==
    { Chars(n) : n \in {MinSummaryLen - 1, MinSummaryLen, MinSummaryLen + 1,
                        MaxSummaryLen - 1, MaxSummaryLen, MaxSummaryLen + 1} }
    \cup { <<" ", "Invalid", " ", "JSON", " ", "response", " ">> }

\* fallback_doc: None, an empty dict, or a document dict
FallbackDocs == {JNull, JObj(<<>>)} \cup TextDocs

(***************************************************************************)
(* loader.summarize_document, summarize_document_sync,                     *)
(* summarize_image_document(_sync): what each does with the outcome of     *)
(* its model call                                                          *)
(***************************************************************************)
\* The try/except KeyError around the prints of summarize_document(_sync):
\* summary["file_path"] on a value that is not a dict is a TypeError, which the
\* handler does not catch; a missing key is caught and the summary returned.
PrintGuarded(summary) ==
    IF summary.kind /= "obj" THEN Raised("TypeError") ELSE Returned(summary)

\* The unguarded prints of summarize_image_document(_sync).
PrintUnguarded(summary) ==
    IF Subscript(summary, K_file_path).exc /= "none"
    THEN Raised(Subscript(summary, K_file_path).exc)
    ELSE IF Subscript(summary, K_summary).exc /= "none"
    THEN Raised(Subscript(summary, K_summary).exc)
    ELSE Returned(summary)

\* Mutant: the file name is preferred to the file path.
ProcessingFailed_NameFirst(doc, e) ==
    JObj(<<Member(K_file_path,
                  DictGetDefault(doc, K_file_name, DictGetDefault(doc, K_file_path, Unknown))),
           Member(K_summary, JStr(<<"Processing failed: ", e>>))>>)

\* except Exception as e, in summarize_document and summarize_document_sync
ProcessingFailed(doc, e) ==
    JObj(<<Member(K_file_path, DocPath(doc)),
           Member(K_summary, JStr(<<"Processing failed: ", e>>))>>)

\* except json.JSONDecodeError, in summarize_document_sync
JsonFormatError(doc) ==
    JObj(<<Member(K_file_path, DocPath(doc)),
           Member(K_summary, JStr(<<"File content analyzed (JSON format error)">>))>>)

\* summarize_document once acompletion has returned `reply`
summarize_document(doc, reply) ==
    PrintGuarded(extract_json_from_response(Strip(reply), doc))

\* summarize_document_sync: the slice is taken only when a fence is present
SyncSlice(content) ==
    IF Contains(content, Fence) /\ Contains(content, "{")
       /\ RFind(content, "}") > Find(content, "{") - 1
    THEN BraceSlice(content)
    ELSE content

summarize_document_sync(doc, reply) ==
    IF JsonLoads(SyncSlice(Strip(reply))).ok
    THEN PrintGuarded(JsonLoads(SyncSlice(Strip(reply))).val)
    ELSE PrintGuarded(JsonFormatError(doc))

ImageContext(image_path) == JObj(<<Member(K_file_path, JStr(image_path))>>)

\* summarize_image_document(_sync) once the completion has returned `reply`
summarize_image_document(image_path, reply) ==
    PrintUnguarded(extract_json_from_response(Strip(reply), ImageContext(image_path)))

\* the Ollama fallback answered with `answer`
OllamaSummary(image_path, answer) ==
    JObj(<<Member(K_file_path, JStr(image_path)), Member(K_summary, JStr(answer))>>)

\* both the completion and the Ollama fallback failed; e is the first error
ImageProcessingFailed(image_path, e) ==
    JObj(<<Member(K_file_path, JStr(image_path)),
           Member(K_summary, JStr(<<"Image processing failed: ", e>>))>>)

(***************************************************************************)
(* loader.load_documents, get_file_summary: the reader and the splitter    *)
(***************************************************************************)
Root == "/root/"
PathImg == <<Root, "pic.png">>

\* A file under the scanned root, as SimpleDirectoryReader and
\* TokenTextSplitter see it: whether it can be read, how many documents the
\* reader splits it into, and whether its text yields any chunk.
File(path, kind, readable, parts, chunks) ==
    [path |-> path, kind |-> kind, readable |-> readable, parts |-> parts, chunks |-> chunks]

MaxParts == 2

Files ==
    { File(PathA, "text", TRUE, 1, 1), File(PathA, "text", TRUE, MaxParts, 1),
      File(PathA, "text", TRUE, 1, 0),
      File(PathB, "text", TRUE, 1, 1), File(PathB, "text", FALSE, 1, 1),
      File(PathImg, "image", TRUE, 1, 0) }

\* What the reader does with a file it cannot read is the library's choice:
\* raise, skip the file, or yield an empty list of documents.
ReaderPolicies == {"raise", "skip", "empty"}

Metadata(f) == <<Member(K_file_path, JStr(f.path)), Member(K_file_name, JStr(<<f.path[Len(f.path)]>>))>>

\* Document(text=..., metadata=...) / ImageDocument(image_path=...)
TextDocument(text, metadata) ==
    [type |-> "text", dict |-> JObj(<<Member(<<"content">>, JStr(text))>> \o metadata),
     image_path |-> <<>>]
ImageDocument(path) == [type |-> "image", dict |-> ImageContext(path), image_path |-> path]

\* splitter.split_text(...) for a file: no chunk, or one
FirstChunk(f) == IF f.chunks > 0 THEN Notes ELSE <<>>

\* one iteration of "for docs in reader.iter_data()" of load_documents, for a
\* file the reader yielded `n` documents for
DocumentsOfFile(f, n) ==
    IF n > 1
    THEN Returned([i \in 1..n |-> TextDocument(FirstChunk(f), Metadata(f))])
    ELSE IF n = 0 THEN Raised("IndexError")
    ELSE Returned(<<IF f.kind = "image" THEN ImageDocument(f.path)
                    ELSE TextDocument(FirstChunk(f), Metadata(f))>>)

\* load_documents over the files of the root; the outcome's val is the list
RECURSIVE load_documents(_, _)
load_documents(files, policy) ==
    IF files = <<>> THEN Returned(<<>>)
    ELSE LET f == Head(files)
             rest == load_documents(Tail(files), policy)
             here == IF f.readable THEN DocumentsOfFile(f, f.parts)
                     ELSE IF policy = "raise" THEN Raised("ReadError")
                     ELSE IF policy = "skip" THEN Returned(<<>>)
                     ELSE DocumentsOfFile(f, 0)
         IN  IF here.exc /= "none" THEN here
             ELSE IF rest.exc /= "none" THEN rest
             ELSE Returned(here.val \o rest.val)

\* get_file_summary up to the call of dispatch_summarize_document_sync: the
\* one Document it builds whatever the file's type
LoadSingleFile(f, policy) ==
    IF ~f.readable
    THEN IF policy = "raise" THEN Raised("ValueError")
         ELSE IF policy = "skip" THEN Raised("StopIteration")
         ELSE Raised("IndexError")
    ELSE IF f.chunks = 0 THEN Raised("IndexError")
    ELSE Returned(<<TextDocument(FirstChunk(f), Metadata(f))>>)

\* os.path.relpath(p, root) of a summary's file_path
RelPath(p) ==
    IF p.kind /= "str" THEN Raised("TypeError")
    ELSE IF p.text = <<>> THEN Raised("ValueError")
    ELSE IF Head(p.text) = Root THEN Returned(JStr(Tail(p.text)))
    ELSE Returned(JStr(<<"../">> \o p.text))

\* summary["file_path"] = os.path.relpath(summary["file_path"], path)
SetFilePath(summary, p) ==
    JObj([i \in 1..Len(summary.members) |->
            IF summary.members[i].key = K_file_path
            THEN Member(K_file_path, p) ELSE summary.members[i]])

Relativize(summary) ==
    IF Subscript(summary, K_file_path).exc /= "none"
    THEN Raised(Subscript(summary, K_file_path).exc)
    ELSE IF RelPath(DictGet(summary, K_file_path)).exc /= "none"
    THEN Raised(RelPath(DictGet(summary, K_file_path)).exc)
    ELSE Returned(SetFilePath(summary, RelPath(DictGet(summary, K_file_path)).val))

\* the loop of get_dir_summaries over the summaries
RECURSIVE RelativizeAll(_)
RelativizeAll(sums) ==
    IF sums = <<>> THEN Returned(<<>>)
    ELSE IF Relativize(Head(sums)).exc /= "none" THEN Raised(Relativize(Head(sums)).exc)
    ELSE IF RelativizeAll(Tail(sums)).exc /= "none" THEN RelativizeAll(Tail(sums))
    ELSE Returned(<<Relativize(Head(sums)).val>> \o RelativizeAll(Tail(sums)).val)

(***************************************************************************)
(* tree_generator.create_file_tree                                         *)
(***************************************************************************)
\* The try/except around json.loads: `parsed` is assigned the parse, None, or
\* (braces present but the last "}" before the first "{") left unassigned.
PlannerParse(content) ==
    IF JsonLoads(content).ok THEN [bound |-> TRUE, val |-> JsonLoads(content).val]
    ELSE IF Contains(content, "{") /\ Contains(content, "}")
    THEN IF RFind(content, "}") > Find(content, "{") - 1
         THEN [bound |-> TRUE, val |-> JsonLoads(BraceSlice(content)).val]
         ELSE [bound |-> FALSE, val |-> JNull]
    ELSE [bound |-> TRUE, val |-> JNull]

\* "files" in parsed: key of a dict, element of a list, substring of a str;
\* a TypeError for a number
InRaises(v) == v.kind \in {"num", "null"}
FilesIn(v) ==
    CASE v.kind = "obj" -> DictHas(v, K_files)
      [] v.kind = "arr" -> \E i \in 1..Len(v.items) : v.items[i] = JStr(K_files)
      [] v.kind = "str" -> Contains(v.text, "files")
      [] OTHER -> FALSE

\* Mutant: the files list is handed on last proposal first.
FilesOf_Reversed(content) ==
    LET p == PlannerParse(content)
        f == Subscript(p.val, K_files)
    IN  IF ~p.bound THEN Raised("UnboundLocalError")
        ELSE IF ~Truthy(p.val) THEN Raised("JSONDecodeError")
        ELSE IF InRaises(p.val) THEN Raised("TypeError")
        ELSE IF ~FilesIn(p.val) THEN Raised("JSONDecodeError")
        ELSE IF f.exc = "none" /\ f.val.kind = "arr"
        THEN Returned(JArr([i \in 1..Len(f.val.items) |->
                              f.val.items[Len(f.val.items) + 1 - i]]))
        ELSE f

\* if parsed and "files" in parsed: file_tree = parsed["files"], else raise
FilesOf(content) ==
    LET p == PlannerParse(content)
    IN  IF ~p.bound THEN Raised("UnboundLocalError")
        ELSE IF ~Truthy(p.val) THEN Raised("JSONDecodeError")
        ELSE IF InRaises(p.val) THEN Raised("TypeError")
        ELSE IF ~FilesIn(p.val) THEN Raised("JSONDecodeError")
        ELSE Subscript(p.val, K_files)

Proposal(src, dst) == JObj(<<Member(K_src_path, src), Member(K_dst_path, dst)>>)

\* Mutant: the fallback plan lists the summaries last to first.
IdentityPlan_Reversed(sums) ==
    Returned(JArr([i \in 1..Len(sums) |->
        Proposal(DictGet(sums[Len(sums) + 1 - i], K_file_path),
                 DictGet(sums[Len(sums) + 1 - i], K_file_path))]))

\* [{"src_path": s["file_path"], "dst_path": s["file_path"]} for s in summaries]
IdentityPlan(sums) ==
    IF \E i \in 1..Len(sums) : Subscript(sums[i], K_file_path).exc /= "none"
    THEN Raised(Subscript(sums[CHOOSE i \in 1..Len(sums) :
                                 /\ Subscript(sums[i], K_file_path).exc /= "none"
                                 /\ \A j \in 1..(i - 1) :
                                      Subscript(sums[j], K_file_path).exc = "none"],
                          K_file_path).exc)
    ELSE Returned(JArr([i \in 1..Len(sums) |->
             Proposal(DictGet(sums[i], K_file_path), DictGet(sums[i], K_file_path))]))

\* create_file_tree from the outcome of its completion call on
create_file_tree(sums, completion) ==
    IF completion.exc /= "none" THEN IdentityPlan(sums)
    ELSE IF FilesOf(Strip(completion.val)).exc /= "none" THEN IdentityPlan(sums)
    ELSE FilesOf(Strip(completion.val))

(***************************************************************************)
(* State                                                                   *)
(***************************************************************************)
VARIABLES
    ex_pc,        \* extract_json_from_response: "call" before, "returned" after
    ex_content,   \* its content argument
    ex_doc,       \* its fallback_doc argument
    ex_result,    \* what it returned
    ex_batch,     \* the outcome of summarize_document on ex_doc and the reply ex_content
    ex_single,    \* the outcome of summarize_document_sync on the same document and reply
    entry,        \* the function called: get_summaries, get_dir_summaries, get_file_summary
    files,        \* the files under the scanned root (or the one file)
    policy,       \* what the reader does with an unreadable file
    pc,           \* where the called function is: load, gather, returned, raised
    documents,    \* the documents being summarized
    tasks,        \* one per document: the coroutine (or call) summarizing it
    summaries,    \* the value the called function returned
    error,        \* the exception that left the called function, "none" if none
    tr_pc,        \* create_file_tree: call, await, returned, raised
    tr_summaries, \* its summaries argument
    tr_calls,     \* the completion calls it has issued
    tr_completion,\* the outcome of its completion call: the reply, or the exception
    file_tree,    \* the value it returned
    tr_error,     \* the exception that left it, "none" if none
    tr_run,       \* which invocation on these summaries this is: 1, 2, ...
    tr_prompt,    \* the user message of its completion call
    tr_standin,   \* what the model stand-in has answered: {[prompt, outcome]}
    tr_plans      \* the plans the earlier invocations returned, in order

\* The watch engine: the Handler of src/watch_utils.py and its processing tick
VARIABLES
    w_pc,         \* "new" after construction, "idle" between ticks, "tick" during one
    w_disk,       \* the files under the watched root
    h_cache,      \* Handler.summaries_cache: entries [key, record] in insertion order
    h_events,     \* Handler.events: the moves recorded since the history was cleared
    h_queue,      \* Handler.queue: the items published, oldest first
    w_state,      \* per path: unknown, known, stale, summarizing, deleted
    w_inflight,   \* per path: none, running (a summarization is out), orphaned
    w_calls,      \* per path: the summarization calls issued so far
    w_calls_tick, \* w_calls as it was when the last tick had issued its calls
    w_raw,        \* the raw events handled since the last tick began
    w_handled,    \* the number of raw events handled
    w_published,  \* per queue item: the raw event that published it, 0 for a tick
    w_discarded,  \* the paths a late summarization result was dropped for
    h_summaries,  \* Handler.summaries: the records the planner is given, in cache order
    w_skipped     \* whether a tick was skipped since the last filesystem event

exVars == <<ex_pc, ex_content, ex_doc, ex_result, ex_batch, ex_single>>
sumVars == <<entry, files, policy, pc, documents, tasks, summaries, error>>
treeVars == <<tr_pc, tr_summaries, tr_calls, tr_completion, file_tree, tr_error,
              tr_run, tr_prompt, tr_standin, tr_plans>>
watchVars == <<w_pc, w_disk, h_cache, h_events, h_queue, w_state, w_inflight,
               w_calls, w_calls_tick, w_raw, w_handled, w_published, w_discarded,
               h_summaries, w_skipped>>
vars == <<exVars, sumVars, treeVars, watchVars>>

\* the outcome of a function that has not been called
NotCalled == [exc |-> "not called", val |-> JNull]
ExIdle ==
    /\ ex_pc = "idle" /\ ex_content = <<>> /\ ex_doc = JNull /\ ex_result = JNull
    /\ ex_batch = NotCalled /\ ex_single = NotCalled
SumIdle ==
    /\ entry = "none" /\ files = <<>> /\ policy = "raise" /\ pc = "idle"
    /\ documents = <<>> /\ tasks = <<>> /\ summaries = <<>> /\ error = "none"
TreeIdle ==
    /\ tr_pc = "idle" /\ tr_summaries = <<>> /\ tr_calls = 0
    /\ tr_completion = Returned(JNull) /\ file_tree = JNull /\ tr_error = "none"
    /\ tr_run = 0 /\ tr_prompt = <<>> /\ tr_standin = {} /\ tr_plans = <<>>

WatchIdle ==
    /\ w_pc = "off" /\ w_disk = {} /\ h_cache = <<>> /\ h_events = <<>> /\ h_queue = <<>>
    /\ w_state = <<>> /\ w_inflight = <<>> /\ w_calls = <<>> /\ w_calls_tick = <<>>
    /\ w_raw = <<>> /\ w_handled = 0 /\ w_published = <<>> /\ w_discarded = {}
    /\ h_summaries = <<>> /\ w_skipped = FALSE

(***************************************************************************)
(* extract_json_from_response, and the two summarize paths, on every reply *)
(***************************************************************************)
ExInit ==
    /\ ex_pc = "call"
    /\ ex_content \in SummaryReplies \cup LengthTexts
    /\ ex_doc \in FallbackDocs
    /\ ex_result = JNull
    /\ ex_batch = NotCalled
    /\ ex_single = NotCalled

ExtractJson ==
    /\ ex_pc = "call"
    /\ ex_result' = extract_json_from_response(ex_content, ex_doc)
    /\ ex_pc' = "returned"
    /\ UNCHANGED <<ex_content, ex_doc, ex_batch, ex_single, sumVars, treeVars, watchVars>>

\* the batch path: summarize_document(doc), the model replying ex_content
SummarizeDocument ==
    /\ ex_pc /= "idle" /\ ex_doc \in TextDocs /\ ex_batch = NotCalled
    /\ ex_batch' = summarize_document(ex_doc, ex_content)
    /\ UNCHANGED <<ex_pc, ex_content, ex_doc, ex_result, ex_single, sumVars, treeVars, watchVars>>

\* the single-file path: summarize_document_sync(doc), the same reply
SummarizeDocumentSync ==
    /\ ex_pc /= "idle" /\ ex_doc \in TextDocs /\ ex_single = NotCalled
    /\ ex_single' = summarize_document_sync(ex_doc, ex_content)
    /\ UNCHANGED <<ex_pc, ex_content, ex_doc, ex_result, ex_batch, sumVars, treeVars, watchVars>>

InitExtract == ExInit /\ SumIdle /\ TreeIdle /\ WatchIdle
NextExtract == ExtractJson \/ SummarizeDocument \/ SummarizeDocumentSync
SpecExtract == InitExtract /\ [][NextExtract]_vars

(***************************************************************************)
(* get_summaries, get_dir_summaries, get_file_summary                      *)
(***************************************************************************)
MaxDocs == 2
MaxFiles == 2
MaxCalls == 2

\* The sequences over S of length 0..n
RECURSIVE SeqsUpTo(_, _)
SeqsUpTo(S, n) ==
    IF n = 0 THEN {<<>>}
    ELSE LET shorter == SeqsUpTo(S, n - 1)
         IN  shorter \cup { Append(q, e) : q \in { r \in shorter : Len(r) = n - 1 },
                                           e \in S }
\* The reader lists the files of the root in sorted order, each once.
PathRank(path) == CASE path = PathA -> 1 [] path = PathB -> 2 [] path = PathImg -> 3
SortedPaths(q) == \A i, j \in 1..Len(q) : i < j => PathRank(q[i].path) < PathRank(q[j].path)

\* Documents handed to get_summaries directly, in the order of this list
InputDocuments ==
    <<[type |-> "text", dict |-> JObj(<<Member(<<"content">>, JStr(Notes)),
                                       Member(K_file_path, JStr(PathA)),
                                       Member(K_file_name, JStr(NameA))>>),
       image_path |-> <<>>],
      [type |-> "text", dict |-> JObj(<<Member(<<"content">>, JStr(Notes)),
                                       Member(K_file_name, JStr(NameB))>>),
       image_path |-> <<>>],
      ImageDocument(PathImg),
      [type |-> "text", dict |-> JObj(<<Member(<<"content">>, JStr(Notes))>>),
       image_path |-> <<>>]>>
Increasing(q) == \A i, j \in 1..Len(q) : i < j => q[i] < q[j]
Selections(n) == { q \in SeqsUpTo(1..Len(InputDocuments), n) : Increasing(q) }

\* The replies the model gives to a summary prompt in these runs
TaskReplies ==
    { Render(SummaryObj(PathA, Notes)), Render(SummaryObj(PathB, Notes)),
      Render(JObj(<<Member(K_summary, JStr(Notes))>>)),
      Render(JArr(<<>>)), Render(JNull),
      Fenced(SummaryObj(PathA, Notes)), InProse(SummaryObj(PathA, Notes)),
      <<"Invalid", " ", "JSON", " ", "response">> }
Errors == {"API Error", "timeout"}
OllamaAnswers == {<<"a", " ", "picture">>}

NewTask == [pc |-> "new", llm |-> "none", llm_calls |-> 0, ollama_calls |-> 0,
            read |-> "none", out |-> Returned(JNull)]
NewTasks(docs) == [i \in 1..Len(docs) |-> NewTask]

SumInit ==
    /\ entry \in {"get_summaries", "get_dir_summaries", "get_file_summary",
                  "dispatch_summarize_document_sync"}
    /\ \/ /\ entry = "get_summaries"
          /\ files = <<>>
          /\ documents \in { [i \in 1..Len(q) |-> InputDocuments[q[i]]] :
                                q \in Selections(MaxDocs) }
          /\ tasks = NewTasks(documents)
          /\ pc = "gather"
       \/ /\ entry = "get_dir_summaries"
          /\ files \in { q \in SeqsUpTo(Files, MaxFiles) : Len(q) > 0 /\ SortedPaths(q) }
          /\ documents = <<>>
          /\ tasks = <<>>
          /\ pc = "load"
       \/ /\ entry = "get_file_summary"
          /\ files \in { <<f>> : f \in Files }
          /\ documents = <<>>
          /\ tasks = <<>>
          /\ pc = "load"
       \/ /\ entry = "dispatch_summarize_document_sync"
          /\ files = <<>>
          /\ documents \in { <<InputDocuments[k]>> : k \in 1..Len(InputDocuments) }
          /\ tasks = NewTasks(documents)
          /\ pc = "gather"
    /\ policy \in ReaderPolicies
    /\ (\A i \in 1..Len(files) : files[i].readable) => policy = "raise"
    /\ summaries = <<>>
    /\ error = "none"

Sync == entry \in {"get_file_summary", "dispatch_summarize_document_sync"}

\* get_dir_summaries: doc_dicts = load_documents(path), then get_summaries
LoadDocuments ==
    /\ entry = "get_dir_summaries" /\ pc = "load"
    /\ LET loaded == load_documents(files, policy)
       IN  IF loaded.exc /= "none"
           THEN /\ pc' = "raised" /\ error' = loaded.exc
                /\ UNCHANGED <<documents, tasks>>
           ELSE /\ pc' = "gather" /\ documents' = loaded.val
                /\ tasks' = NewTasks(loaded.val)
                /\ UNCHANGED error
    /\ UNCHANGED <<entry, files, policy, summaries, exVars, treeVars, watchVars>>

\* get_file_summary: the reader, the splitter, then
\* dispatch_summarize_document_sync on the Document it built
LoadFile ==
    /\ entry = "get_file_summary" /\ pc = "load"
    /\ LET loaded == LoadSingleFile(files[1], policy)
       IN  IF loaded.exc /= "none"
           THEN /\ pc' = "raised" /\ error' = loaded.exc
                /\ UNCHANGED <<documents, tasks>>
           ELSE /\ pc' = "gather" /\ documents' = loaded.val
                /\ tasks' = NewTasks(loaded.val)
                /\ UNCHANGED error
    /\ UNCHANGED <<entry, files, policy, summaries, exVars, treeVars, watchVars>>

SetTask(i, t) == tasks' = [tasks EXCEPT ![i] = t]
Finish(t, outcome) ==
    [t EXCEPT !.pc = IF outcome.exc = "none" THEN "done" ELSE "raised", !.out = outcome]
SumFrame == UNCHANGED <<entry, files, policy, pc, documents, summaries, error, exVars, treeVars, watchVars>>

\* summarize_document(_sync) runs up to its completion call
StartText(i) ==
    /\ pc = "gather" /\ tasks[i].pc = "new" /\ documents[i].type = "text"
    /\ SetTask(i, [tasks[i] EXCEPT !.pc = "await_llm", !.llm = "pending",
                                   !.llm_calls = @ + 1])
    /\ SumFrame

\* summarize_image_document reads the image and runs up to its completion
\* call, or, when the image cannot be read, up to the Ollama call
StartImage(i) ==
    /\ pc = "gather" /\ tasks[i].pc = "new" /\ documents[i].type = "image"
    /\ \/ SetTask(i, [tasks[i] EXCEPT !.pc = "await_llm", !.llm = "pending",
                                      !.read = "ok", !.llm_calls = @ + 1])
       \/ SetTask(i, [tasks[i] EXCEPT !.pc = "await_ollama", !.read = "failed",
                                      !.out = Raised("OSError"),
                                      !.ollama_calls = @ + 1])
    /\ SumFrame

\* the completion call of task i returns a reply
LlmReturns(i) ==
    /\ pc = "gather" /\ tasks[i].pc = "await_llm"
    /\ \E reply \in TaskReplies :
         SetTask(i, Finish([tasks[i] EXCEPT !.llm = "returned"],
                    IF documents[i].type = "image"
                    THEN summarize_image_document(documents[i].image_path, reply)
                    ELSE IF Sync THEN summarize_document_sync(documents[i].dict, reply)
                    ELSE summarize_document(documents[i].dict, reply)))
    /\ SumFrame

\* Mutant: a failed completion call of a text document is issued again.
LlmRaises_Retry(i) ==
    /\ pc = "gather" /\ tasks[i].pc = "await_llm"
    /\ \E e \in Errors :
         IF documents[i].type = "image"
         THEN SetTask(i, [tasks[i] EXCEPT !.pc = "await_ollama", !.llm = "raised",
                                          !.out = Raised(e), !.ollama_calls = @ + 1])
         ELSE IF tasks[i].llm_calls < MaxCalls
         THEN SetTask(i, [tasks[i] EXCEPT !.llm_calls = @ + 1])
         ELSE SetTask(i, Finish([tasks[i] EXCEPT !.llm = "raised"],
                                PrintGuarded(ProcessingFailed(documents[i].dict, e))))
    /\ SumFrame

\* the completion call of task i raises (provider error, timeout)
LlmRaises(i) ==
    /\ pc = "gather" /\ tasks[i].pc = "await_llm"
    /\ \E e \in Errors :
         IF documents[i].type = "image"
         THEN SetTask(i, [tasks[i] EXCEPT !.pc = "await_ollama", !.llm = "raised",
                                          !.out = Raised(e), !.ollama_calls = @ + 1])
         ELSE SetTask(i, Finish([tasks[i] EXCEPT !.llm = "raised"],
                                PrintGuarded(ProcessingFailed(documents[i].dict, e))))
    /\ SumFrame

\* the Ollama fallback of an image task answers
OllamaReturns(i) ==
    /\ pc = "gather" /\ tasks[i].pc = "await_ollama"
    /\ \E answer \in OllamaAnswers :
         SetTask(i, Finish(tasks[i],
                    PrintUnguarded(OllamaSummary(documents[i].image_path, answer))))
    /\ SumFrame

\* the Ollama fallback of an image task raises too
OllamaRaises(i) ==
    /\ pc = "gather" /\ tasks[i].pc = "await_ollama"
    /\ SetTask(i, Finish(tasks[i],
               PrintUnguarded(ImageProcessingFailed(documents[i].image_path,
                                                    tasks[i].out.exc))))
    /\ SumFrame

AllDone == \A i \in 1..Len(tasks) : tasks[i].pc = "done"
Results == [i \in 1..Len(tasks) |-> tasks[i].out.val]

\* asyncio.gather has every result: get_summaries returns them in input order
GatherReturns ==
    /\ entry = "get_summaries" /\ pc = "gather" /\ AllDone
    /\ pc' = "returned" /\ summaries' = Results
    /\ UNCHANGED <<entry, files, policy, documents, tasks, error, exVars, treeVars, watchVars>>

\* get_dir_summaries: get_summaries returned, the paths are made relative
DirSummariesReturn ==
    /\ entry = "get_dir_summaries" /\ pc = "gather" /\ AllDone
    /\ IF RelativizeAll(Results).exc /= "none"
       THEN pc' = "raised" /\ error' = RelativizeAll(Results).exc /\ UNCHANGED summaries
       ELSE pc' = "returned" /\ summaries' = RelativizeAll(Results).val /\ UNCHANGED error
    /\ UNCHANGED <<entry, files, policy, documents, tasks, exVars, treeVars, watchVars>>

\* dispatch_summarize_document_sync returns, and get_file_summary returns
\* what it returned
FileSummaryReturns ==
    /\ Sync /\ pc = "gather" /\ AllDone
    /\ pc' = "returned" /\ summaries' = Results
    /\ UNCHANGED <<entry, files, policy, documents, tasks, error, exVars, treeVars, watchVars>>

\* an exception left task i: gather re-raises it in get_summaries at once,
\* the other tasks are not cancelled; in get_file_summary it leaves the call
TaskRaises(i) ==
    /\ pc = "gather" /\ tasks[i].pc = "raised"
    /\ pc' = "raised" /\ error' = tasks[i].out.exc
    /\ UNCHANGED <<entry, files, policy, documents, tasks, summaries, exVars, treeVars, watchVars>>

InitSum == SumInit /\ ExIdle /\ TreeIdle /\ WatchIdle
NextSum ==
    \/ LoadDocuments
    \/ LoadFile
    \/ \E i \in 1..Len(tasks) : StartText(i)
    \/ \E i \in 1..Len(tasks) : StartImage(i)
    \/ \E i \in 1..Len(tasks) : LlmReturns(i)
    \/ \E i \in 1..Len(tasks) : LlmRaises(i)
    \/ \E i \in 1..Len(tasks) : OllamaReturns(i)
    \/ \E i \in 1..Len(tasks) : OllamaRaises(i)
    \/ \E i \in 1..Len(tasks) : TaskRaises(i)
    \/ GatherReturns
    \/ DirSummariesReturn
    \/ FileSummaryReturns
SpecSum == InitSum /\ [][NextSum]_vars
(***************************************************************************)
(* create_file_tree over the summaries of a scan                           *)
(***************************************************************************)
MaxSummaries == 2
\* invocations of create_file_tree on one list of summaries
MaxRuns == 2

RelA == <<"a.txt">>
RelB == <<"b.txt">>
RelZ == <<"z.txt">>
RelDocsA == <<"docs/", "a.txt">>

\* The summaries get_dir_summaries returns, in scan order
ScanSummaries == <<SummaryObj(RelA, Notes), SummaryObj(RelB, Notes), SummaryObj(RelZ, <<>>)>>
SummaryLists ==
    { [i \in 1..Len(q) |-> ScanSummaries[q[i]]] :
        q \in { r \in SeqsUpTo(1..Len(ScanSummaries), MaxSummaries) :
                  \A i, j \in 1..Len(r) : i < j => r[i] < r[j] } }

Plan(proposals) == JObj(<<Member(K_files, JArr(proposals))>>)

\* JSON values a model can put in its reply to the planner prompt
PlanValues ==
    { Plan(<<Proposal(JStr(RelA), JStr(RelDocsA)), Proposal(JStr(RelB), JStr(RelB))>>),
      Plan(<<Proposal(JStr(RelB), JStr(RelB)), Proposal(JStr(RelA), JStr(RelDocsA))>>),
      Plan(<<Proposal(JStr(RelZ), JStr(RelDocsA))>>),
      Plan(<<Proposal(JStr(RelA), JStr(RelDocsA)), Proposal(JStr(RelB), JStr(RelDocsA))>>),
      Plan(<<>>),
      JObj(<<Member(K_files, JNum("5"))>>),
      JObj(<<Member(K_summary, JStr(Notes))>>),
      JObj(<<>>), JArr(<<>>), JArr(<<JStr(K_files)>>), JNum("5"), JNum("0"),
      JStr(K_files), JStr(Notes), JNull }

PlannerReplies ==
    { Render(v) : v \in PlanValues } \cup { Fenced(v) : v \in PlanValues }
    \cup { InProse(v) : v \in PlanValues }
    \cup Truncated(Plan(<<Proposal(JStr(RelA), JStr(RelDocsA))>>))
    \cup FreeTexts

TreeInit ==
    /\ tr_pc = "call"
    /\ tr_summaries \in SummaryLists
    /\ tr_calls = 0
    /\ tr_completion = Returned(JNull)
    /\ file_tree = JNull
    /\ tr_error = "none"
    /\ tr_run = 1
    /\ tr_prompt = <<>>
    /\ tr_standin = {}
    /\ tr_plans = <<>>

\* Mutant: the user message also carries the plan of the previous invocation.
PlannerPrompt_WithLastPlan(sums) ==
    Render(JArr(sums))
    \o (IF tr_plans = <<>> THEN <<>> ELSE Render(tr_plans[Len(tr_plans)]))

\* {"role": "user", "content": json.dumps(summaries)}
PlannerPrompt(sums) == Render(JArr(sums))

\* The model stand-in is deterministic: a prompt it has answered before gets
\* the same outcome again.
Answered(prompt) == \E r \in tr_standin : r.prompt = prompt
StandIn(prompt) == (CHOOSE r \in tr_standin : r.prompt = prompt).outcome

\* create_file_tree issues litellm.completion
TreeCall ==
    /\ tr_pc = "call"
    /\ tr_pc' = "await" /\ tr_calls' = tr_calls + 1
    /\ tr_prompt' = PlannerPrompt(tr_summaries)
    /\ UNCHANGED <<tr_summaries, tr_completion, file_tree, tr_error, tr_run,
                   tr_standin, tr_plans, exVars, sumVars, watchVars>>

TreeFinish(completion) ==
    /\ Answered(tr_prompt) => completion = StandIn(tr_prompt)
    /\ tr_standin' = tr_standin \cup {[prompt |-> tr_prompt, outcome |-> completion]}
    /\ tr_completion' = completion
    /\ IF create_file_tree(tr_summaries, completion).exc /= "none"
       THEN /\ tr_pc' = "raised"
            /\ tr_error' = create_file_tree(tr_summaries, completion).exc
            /\ UNCHANGED file_tree
       ELSE /\ tr_pc' = "returned"
            /\ file_tree' = create_file_tree(tr_summaries, completion).val
            /\ UNCHANGED tr_error
    /\ UNCHANGED <<tr_summaries, tr_calls, tr_run, tr_prompt, tr_plans, exVars, sumVars, watchVars>>

\* the completion call returns the model's reply
TreeReplyArrives ==
    /\ tr_pc = "await"
    /\ \E content \in PlannerReplies : TreeFinish([exc |-> "none", val |-> content])

\* Mutant: a failed completion call is issued again.
TreeCallRaises_Retry ==
    /\ tr_pc = "await"
    /\ IF tr_calls < MaxCalls
       THEN /\ tr_calls' = tr_calls + 1
            /\ UNCHANGED <<tr_pc, tr_summaries, tr_completion, file_tree, tr_error,
                           tr_run, tr_prompt, tr_standin, tr_plans, exVars, sumVars, watchVars>>
       ELSE \E e \in Errors : TreeFinish([exc |-> e, val |-> <<>>])

\* the completion call raises (provider error, timeout)
TreeCallRaises ==
    /\ tr_pc = "await"
    /\ \E e \in Errors : TreeFinish([exc |-> e, val |-> <<>>])

\* the caller invokes create_file_tree again on the same, unchanged summaries
TreeAgain ==
    /\ tr_pc = "returned" /\ tr_run < MaxRuns
    /\ tr_run' = tr_run + 1
    /\ tr_plans' = Append(tr_plans, file_tree)
    /\ tr_pc' = "call" /\ tr_calls' = 0
    /\ tr_completion' = Returned(JNull) /\ file_tree' = JNull
    /\ UNCHANGED <<tr_summaries, tr_error, tr_prompt, tr_standin, exVars, sumVars, watchVars>>

InitTree == TreeInit /\ ExIdle /\ SumIdle /\ WatchIdle
NextTree == TreeCall \/ TreeReplyArrives \/ TreeCallRaises \/ TreeAgain
SpecTree == InitTree /\ [][NextTree]_vars
(***************************************************************************)
(* The watch engine: Handler(base_path, callback, queue), its event        *)
(* handlers and the processing tick                                        *)
(***************************************************************************)
\* raw filesystem events handled in one run
MaxFsEvents == 3

\* The paths under the watched root, relative to it; filesystem events arrive
\* for the first two, the third is a file that is left alone
ChangingPaths == {RelA, RelB}
WatchPaths == ChangingPaths \cup {RelZ}
WatchRank(path) == CASE path = RelA -> 1 [] path = RelB -> 2 [] path = RelZ -> 3
\* event.src_path: the absolute path of a path under the root
Abs(path) == <<Root>> \o path

\* What get_file_summary returns for a path
Updated == <<"Updated", " ", "file">>
UpdatedRecord(path) == SummaryObj(path, Updated)

\* summaries_cache, a dict in insertion order
CacheHas(c, k) == \E i \in 1..Len(c) : c[i].key = k
CacheGet(c, k) == c[CHOOSE i \in 1..Len(c) : c[i].key = k].record
CachePut(c, k, r) ==
    IF CacheHas(c, k)
    THEN [i \in 1..Len(c) |-> IF c[i].key = k THEN [key |-> k, record |-> r] ELSE c[i]]
    ELSE Append(c, [key |-> k, record |-> r])
CacheRemove(c, k) == SelectSeq(c, LAMBDA e : e.key /= k)
\* Mutant: the old entry is dropped and nothing is stored under the new key.
CacheRename_DropRecord(c, old, new) == CacheRemove(c, old)

\* rename(old, new): the record moves to the new key; nothing to do when the
\* old key is absent
CacheRename(c, old, new) ==
    IF CacheHas(c, old)
    THEN [i \in 1..Len(CacheRemove(c, new)) |->
            IF CacheRemove(c, new)[i].key = old
            THEN [key |-> new, record |-> CacheRemove(c, new)[i].record]
            ELSE CacheRemove(c, new)[i]]
    ELSE c
\* snapshot(): the records in insertion order
Snapshot(c) == [i \in 1..Len(c) |-> c[i].record]

\* The directory scan of set_summaries: the readable files in path order
RECURSIVE ScanOf(_)
ScanOf(paths) ==
    IF paths = {} THEN <<>>
    ELSE LET first == CHOOSE q \in paths : \A r \in paths : WatchRank(q) <= WatchRank(r)
         IN  <<SummaryObj(first, Notes)>> \o ScanOf(paths \ {first})

\* The planner behind the callback: an OrganizationPlan {files: [...]}, here
\* the identity plan over the snapshot or the moves of the history.
Callback(snapshot, history) ==
    { Plan(IdentityPlan(snapshot).val.items), Plan(history) }

RawEvent(type, path, dest) == [type |-> type, path |-> path, dest |-> dest]

WatchInit ==
    /\ w_pc = "new"
    /\ w_disk \in { d \cup {RelZ} : d \in SUBSET ChangingPaths }
    /\ h_cache = <<>>
    /\ h_events = <<>>
    /\ h_queue = <<>>
    /\ w_state = [q \in WatchPaths |-> "unknown"]
    /\ w_inflight = [q \in WatchPaths |-> "none"]
    /\ w_calls = [q \in WatchPaths |-> 0]
    /\ w_calls_tick = [q \in WatchPaths |-> 0]
    /\ w_raw = <<>>
    /\ w_handled = 0
    /\ w_published = <<>>
    /\ w_discarded = {}
    /\ h_summaries = <<>>
    /\ w_skipped = FALSE

WatchFrame == UNCHANGED <<exVars, sumVars, treeVars>>

\* Mutant: the cache entries are keyed by the records' summary text.
set_summaries_KeyedBySummary ==
    /\ w_pc = "new"
    /\ \E scanned \in SUBSET w_disk :
         /\ h_cache' = [i \in 1..Len(ScanOf(scanned)) |->
                          [key |-> DictGet(ScanOf(scanned)[i], K_summary).text,
                           record |-> ScanOf(scanned)[i]]]
         /\ h_summaries' = ScanOf(scanned)
         /\ w_state' = [q \in WatchPaths |-> IF q \in scanned THEN "known" ELSE "unknown"]
    /\ w_pc' = "idle"
    /\ UNCHANGED <<w_disk, h_events, h_queue, w_inflight, w_calls, w_calls_tick,
                   w_raw, w_handled, w_published, w_discarded, w_skipped>>
    /\ WatchFrame

\* set_summaries: summaries = get_dir_summaries(base_path), one cache entry per
\* record under its file_path
set_summaries ==
    /\ w_pc = "new"
    /\ \E scanned \in SUBSET w_disk :
         /\ h_cache' = [i \in 1..Len(ScanOf(scanned)) |->
                          [key |-> DictGet(ScanOf(scanned)[i], K_file_path).text,
                           record |-> ScanOf(scanned)[i]]]
         /\ h_summaries' = ScanOf(scanned)
         /\ w_state' = [q \in WatchPaths |-> IF q \in scanned THEN "known" ELSE "unknown"]
    /\ w_pc' = "idle"
    /\ UNCHANGED <<w_disk, h_events, h_queue, w_inflight, w_calls, w_calls_tick,
                   w_raw, w_handled, w_published, w_discarded, w_skipped>>
    /\ WatchFrame

Watching == w_pc \in {"idle", "tick"} /\ w_handled < MaxFsEvents
Handled(type, path, dest) ==
    /\ w_raw' = Append(w_raw, RawEvent(type, path, dest))
    /\ w_handled' = w_handled + 1
    /\ w_skipped' = FALSE

\* Mutant: a create event summarizes the file at once.
on_created_SummarizeNow(path) ==
    /\ Watching /\ path \notin w_disk
    /\ w_disk' = w_disk \cup {path}
    /\ w_calls' = [w_calls EXCEPT ![path] = @ + 1]
    /\ h_cache' = CachePut(h_cache, path, UpdatedRecord(path))
    /\ w_state' = [w_state EXCEPT ![path] = "known"]
    /\ Handled("created", path, <<>>)
    /\ UNCHANGED <<w_pc, h_events, h_queue, w_inflight, w_calls_tick, w_published,
                   w_discarded>>
    /\ h_summaries' = Snapshot(h_cache')
    /\ WatchFrame

\* create event: the path becomes stale and waits for the next tick
on_created(path) ==
    /\ Watching /\ path \notin w_disk
    /\ w_disk' = w_disk \cup {path}
    /\ w_state' = [w_state EXCEPT ![path] = "stale"]
    /\ Handled("created", path, <<>>)
    /\ UNCHANGED <<w_pc, h_cache, h_events, h_queue, w_inflight, w_calls, w_calls_tick,
                   w_published, w_discarded,
                   h_summaries>>
    /\ WatchFrame

\* Mutant: a modify event summarizes the file at once.
on_modified_SummarizeNow(path) ==
    /\ Watching /\ path \in w_disk
    /\ w_calls' = [w_calls EXCEPT ![path] = @ + 1]
    /\ h_cache' = CachePut(h_cache, path, UpdatedRecord(path))
    /\ w_state' = [w_state EXCEPT ![path] = "known"]
    /\ Handled("modified", path, <<>>)
    /\ UNCHANGED <<w_pc, w_disk, h_events, h_queue, w_inflight, w_calls_tick,
                   w_published, w_discarded>>
    /\ h_summaries' = Snapshot(h_cache')
    /\ WatchFrame

\* modify event: a known path becomes stale, an unknown one is treated as created
on_modified(path) ==
    /\ Watching /\ path \in w_disk
    /\ w_state' = [w_state EXCEPT ![path] = "stale"]
    /\ Handled("modified", path, <<>>)
    /\ UNCHANGED <<w_pc, w_disk, h_cache, h_events, h_queue, w_inflight, w_calls,
                   w_calls_tick, w_published, w_discarded,
                   h_summaries>>
    /\ WatchFrame

\* delete event: the entry is removed at once; a summarization of the path
\* that is out is orphaned
on_deleted(path) ==
    /\ Watching /\ path \in w_disk
    /\ w_disk' = w_disk \ {path}
    /\ h_cache' = CacheRemove(h_cache, path)
    /\ w_state' = [w_state EXCEPT ![path] = "deleted"]
    /\ w_inflight' = [w_inflight EXCEPT ![path] = IF @ = "none" THEN "none" ELSE "orphaned"]
    /\ Handled("deleted", path, <<>>)
    /\ UNCHANGED <<w_pc, h_events, h_queue, w_calls, w_calls_tick, w_published,
                   w_discarded>>
    /\ h_summaries' = Snapshot(h_cache')
    /\ WatchFrame

\* Mutant: the move is recorded with the absolute paths of the event.
PublishMove_AbsolutePaths(old, new) ==
    /\ h_events' = Append(h_events, Proposal(JStr(Abs(old)), JStr(Abs(new))))
    /\ \E plan \in Callback(Snapshot(h_cache'), h_events') :
         h_queue' = Append(h_queue, plan)
    /\ w_published' = Append(w_published, w_handled + 1)

\* on_moved: {src_path, dst_path}, relative to base_path, is appended to
\* events, the callback is called once with the summaries and the events, and
\* what it returns is put on the queue
PublishMove(old, new) ==
    /\ h_events' = Append(h_events, Proposal(RelPath(JStr(Abs(old))).val,
                                             RelPath(JStr(Abs(new))).val))
    /\ \E plan \in Callback(Snapshot(h_cache'), h_events') :
         h_queue' = Append(h_queue, plan)
    /\ w_published' = Append(w_published, w_handled + 1)

\* move event: the cache key is renamed, a summarization of the old path that
\* is out is orphaned and the new path inherits a pending resummarization;
\* then the move is recorded and published
on_moved(old, new) ==
    /\ Watching /\ old \in w_disk /\ new \notin w_disk
    /\ w_disk' = (w_disk \ {old}) \cup {new}
    /\ h_cache' = CacheRename(h_cache, old, new)
    /\ w_state' = [w_state EXCEPT
                     ![old] = "deleted",
                     ![new] = IF w_state[old] \in {"stale", "summarizing"}
                              THEN "stale" ELSE w_state[old]]
    /\ w_inflight' = [w_inflight EXCEPT ![old] = IF @ = "none" THEN "none" ELSE "orphaned"]
    /\ PublishMove(old, new)
    /\ Handled("moved", old, new)
    /\ UNCHANGED <<w_pc, w_calls, w_calls_tick, w_discarded>>
    /\ h_summaries' = Snapshot(h_cache')
    /\ WatchFrame

\* The stale paths: the batch of the next tick
Stale == { q \in WatchPaths : w_state[q] = "stale" }

\* The timer fires and nothing changed since the previous tick: the tick is
\* skipped
TickSkipped ==
    /\ w_pc = "idle" /\ w_raw = <<>> /\ ~w_skipped
    /\ w_skipped' = TRUE
    /\ UNCHANGED <<w_pc, w_disk, h_cache, h_events, h_queue, w_state, w_inflight, w_calls,
                   w_calls_tick, w_raw, w_handled, w_published, w_discarded, h_summaries>>
    /\ WatchFrame

\* Mutant: a tick runs whether or not anything changed.
TickStart_Unconditional ==
    /\ w_pc = "idle"
    /\ w_pc' = "tick"
    /\ w_calls' = [q \in WatchPaths |-> IF q \in Stale THEN w_calls[q] + 1 ELSE w_calls[q]]
    /\ w_calls_tick' = w_calls'
    /\ w_inflight' = [q \in WatchPaths |-> IF q \in Stale THEN "running" ELSE w_inflight[q]]
    /\ w_state' = [q \in WatchPaths |-> IF q \in Stale THEN "summarizing" ELSE w_state[q]]
    /\ w_raw' = <<>>
    /\ UNCHANGED <<w_disk, h_cache, h_events, h_queue, w_handled, w_published, w_discarded,
                   h_summaries, w_skipped>>
    /\ WatchFrame

\* A tick begins when something changed since the previous one: one
\* summarization call is issued for every stale path
TickStart ==
    /\ w_pc = "idle" /\ w_raw /= <<>>
    /\ w_pc' = "tick"
    /\ w_calls' = [q \in WatchPaths |-> IF q \in Stale THEN w_calls[q] + 1 ELSE w_calls[q]]
    /\ w_calls_tick' = w_calls'
    /\ w_inflight' = [q \in WatchPaths |-> IF q \in Stale THEN "running" ELSE w_inflight[q]]
    /\ w_state' = [q \in WatchPaths |-> IF q \in Stale THEN "summarizing" ELSE w_state[q]]
    /\ w_raw' = <<>>
    /\ UNCHANGED <<w_disk, h_cache, h_events, h_queue, w_handled, w_published, w_discarded,
                   h_summaries, w_skipped>>
    /\ WatchFrame

\* Mutant: a result is stored whatever happened to its path meanwhile.
ResultArrives_KeepLate(path) ==
    /\ w_pc = "tick" /\ w_inflight[path] /= "none"
    /\ w_inflight' = [w_inflight EXCEPT ![path] = "none"]
    /\ h_cache' = CachePut(h_cache, path, UpdatedRecord(path))
    /\ w_state' = [w_state EXCEPT
                     ![path] = IF @ = "summarizing" THEN "known" ELSE @]
    /\ w_discarded' = w_discarded
    /\ UNCHANGED <<w_pc, w_disk, h_events, h_queue, w_calls, w_calls_tick, w_raw,
                   w_handled, w_published, w_skipped>>
    /\ h_summaries' = Snapshot(h_cache')
    /\ WatchFrame

\* The result of a summarization arrives: it is stored under its path, or
\* dropped when the path was deleted or moved away meanwhile
ResultArrives(path) ==
    /\ w_pc = "tick" /\ w_inflight[path] /= "none"
    /\ w_inflight' = [w_inflight EXCEPT ![path] = "none"]
    /\ IF w_inflight[path] = "orphaned"
       THEN /\ w_discarded' = w_discarded \cup {path}
            /\ UNCHANGED <<h_cache, w_state>>
       ELSE /\ h_cache' = CachePut(h_cache, path, UpdatedRecord(path))
            /\ w_state' = [w_state EXCEPT
                             ![path] = IF @ = "summarizing" THEN "known" ELSE @]
            /\ UNCHANGED w_discarded
    /\ UNCHANGED <<w_pc, w_disk, h_events, h_queue, w_calls, w_calls_tick, w_raw,
                   w_handled, w_published, w_skipped>>
    /\ h_summaries' = Snapshot(h_cache')
    /\ WatchFrame

\* The tick ends when every result is in: the planner is called with the
\* snapshot and the move history, its plan is published, the history cleared
TickEnd ==
    /\ w_pc = "tick" /\ \A q \in WatchPaths : w_inflight[q] = "none"
    /\ \E plan \in Callback(Snapshot(h_cache), h_events) :
         h_queue' = Append(h_queue, plan)
    /\ w_published' = Append(w_published, 0)
    /\ h_events' = <<>>
    /\ w_pc' = "idle"
    /\ UNCHANGED <<w_disk, h_cache, w_state, w_inflight, w_calls, w_calls_tick, w_raw,
                   w_handled, w_discarded,
                   h_summaries, w_skipped>>
    /\ WatchFrame

InitWatch == WatchInit /\ ExIdle /\ SumIdle /\ TreeIdle
NextWatch ==
    \/ set_summaries
    \/ \E path \in ChangingPaths : on_created(path)
    \/ \E path \in ChangingPaths : on_modified(path)
    \/ \E path \in ChangingPaths : on_deleted(path)
    \/ \E old, new \in ChangingPaths : on_moved(old, new)
    \/ TickSkipped
    \/ TickStart
    \/ \E path \in WatchPaths : ResultArrives(path)
    \/ TickEnd
SpecWatch == InitWatch /\ [][NextWatch]_vars
(***************************************************************************)
(* Properties                                                              *)
(***************************************************************************)
TaskIds == 1..Len(tasks)
FilePathOf(v) == Subscript(v, K_file_path)
SummaryOf(v) == Subscript(v, K_summary)

\* C1: no single document's failure raises out of get_summaries: whatever the
\* completion calls do and whatever the model replies, get_summaries does not
\* end with an exception.
C1_GetSummariesNeverRaises == entry = "get_summaries" => pc /= "raised"

\* C2: a content-load failure never propagates out of get_dir_summaries or
\* get_file_summary, and every scanned file, loadable or not, has a document
\* (hence a record) of its own in the scan's result.
LoadErrors == {"ReadError", "ValueError", "StopIteration", "IndexError"}
C2_LoadFailureGetsFallbackRecord ==
    entry \in {"get_dir_summaries", "get_file_summary"} =>
        /\ pc = "raised" => error \notin LoadErrors
        /\ pc = "returned" =>
             \A k \in 1..Len(files) :
                \E i \in 1..Len(documents) : DocPath(documents[i].dict) = JStr(files[k].path)

\* C3: what get_summaries returns over N documents is N records, the i-th
\* carrying the i-th document's own path as file_path, for every completion
\* order and every model reply.
C3_RecordsKeyedToOwnPath ==
    entry = "get_summaries" /\ pc = "returned" =>
        /\ Len(summaries) = Len(documents)
        /\ \A i \in 1..Len(documents) :
             DictHas(documents[i].dict, K_file_path) =>
                FilePathOf(summaries[i]) = Returned(DictGet(documents[i].dict, K_file_path))

\* C4: for every malformed completion output (one that is not itself a JSON
\* text: free text, partial JSON, JSON embedded in prose) the record returned
\* by extract_json_from_response has a summary field that is a non-empty string.
NonEmptyString(v) == v.kind = "str" /\ v.text /= <<>>
C4_MalformedOutputGetsSummary ==
    ex_pc = "returned" /\ ~JsonLoads(ex_content).ok =>
        /\ SummaryOf(ex_result).exc = "none"
        /\ NonEmptyString(SummaryOf(ex_result).val)

\* C5: for every input text extract_json_from_response returns a mapping with
\* a file_path field and a summary field.
C5_AlwaysUsableRecord ==
    ex_pc = "returned" =>
        /\ ex_result.kind = "obj"
        /\ DictHas(ex_result, K_file_path)
        /\ DictHas(ex_result, K_summary)

\* C6: when the completion call for a text document raises, the task ends
\* normally with a record whose summary starts with the failure indicator and
\* whose file_path is the document's file_path, else its file_name.
C6_CompletionFailureGivesFallback ==
    \A i \in TaskIds :
        documents[i].type = "text" /\ tasks[i].llm = "raised" =>
            /\ tasks[i].pc = "done"
            /\ SummaryOf(tasks[i].out.val).exc = "none"
            /\ Head(SummaryOf(tasks[i].out.val).val.text) = "Processing failed: "
            /\ DictHas(documents[i].dict, K_file_path) =>
                 FilePathOf(tasks[i].out.val) =
                     Returned(DictGet(documents[i].dict, K_file_path))
            /\ ~DictHas(documents[i].dict, K_file_path)
                 /\ DictHas(documents[i].dict, K_file_name) =>
                 FilePathOf(tasks[i].out.val) =
                     Returned(DictGet(documents[i].dict, K_file_name))

\* C6 witness: the completion call of a document that has a file_name and no
\* file_path has raised.
C6_Witness ==
    \E i \in TaskIds :
        /\ documents[i].type = "text" /\ tasks[i].llm = "raised"
        /\ ~DictHas(documents[i].dict, K_file_path)
        /\ DictHas(documents[i].dict, K_file_name)
        /\ tasks[i].pc = "done"

ReplyJson(content) ==
    IF JsonLoads(content).ok THEN JsonLoads(content)
    ELSE IF Find(content, "{") > 0 /\ RFind(content, "}") > Find(content, "{")
    THEN JsonLoads(SubSeq(content, Find(content, "{"), RFind(content, "}")))
    ELSE [ok |-> FALSE, val |-> JNull]
LacksFiles(content) ==
    \/ ~ReplyJson(content).ok
    \/ ReplyJson(content).val.kind /= "obj"
    \/ ~DictHas(ReplyJson(content).val, K_files)
IsIdentityPlan(tree, sums) ==
    /\ tree.kind = "arr"
    /\ Len(tree.items) = Len(sums)
    /\ \A i \in 1..Len(sums) :
         /\ Subscript(tree.items[i], K_src_path) = FilePathOf(sums[i])
         /\ Subscript(tree.items[i], K_dst_path) = FilePathOf(sums[i])
         /\ FilePathOf(sums[i]).exc = "none"

\* C8: when the planner's reply is unparseable or carries no files field,
\* create_file_tree returns the identity plan: one proposal per input summary,
\* in input order, src_path = dst_path = the summary's file_path.
C8_IdentityPlanOnBadReply ==
    tr_pc \in {"returned", "raised"} /\ tr_completion.exc = "none"
      /\ LacksFiles(Strip(tr_completion.val)) =>
        tr_pc = "returned" /\ IsIdentityPlan(file_tree, tr_summaries)

\* C8 witness: a reply that is a JSON object without a files field arrived
\* for two summaries.
C8_Witness ==
    /\ tr_pc = "returned" /\ tr_completion.exc = "none" /\ Len(tr_summaries) = 2
    /\ ReplyJson(Strip(tr_completion.val)).ok
    /\ ReplyJson(Strip(tr_completion.val)).val.kind = "obj"
    /\ ~DictHas(ReplyJson(Strip(tr_completion.val)).val, K_files)

\* C9: an invocation of create_file_tree issues exactly one completion call;
\* when that call raises, no second call is made and the invocation returns
\* the identity plan.
C9_OneCallNoRetry ==
    /\ tr_calls = IF tr_pc = "call" THEN 0 ELSE 1
    /\ tr_completion.exc /= "none" =>
         tr_pc = "returned" /\ IsIdentityPlan(file_tree, tr_summaries)

\* C9 witness: the completion call raised for two summaries.
C9_Witness ==
    tr_completion.exc /= "none" /\ tr_pc = "returned" /\ Len(tr_summaries) = 2

\* C10: every proposal of the returned plan has a src_path that is the
\* file_path of one of the input summaries.
C10_SrcPathsAreKnown ==
    tr_pc = "returned" /\ file_tree.kind = "arr" =>
        \A i \in 1..Len(file_tree.items) :
            \E k \in 1..Len(tr_summaries) :
                Subscript(file_tree.items[i], K_src_path) = FilePathOf(tr_summaries[k])

\* The proposals of a returned plan (none when the value is not a list)
Proposals(tree) == IF tree.kind = "arr" THEN tree.items ELSE <<>>
SrcPath(p) == Subscript(p, K_src_path)
DstPath(p) == Subscript(p, K_dst_path)

\* C11: no two proposals of a plan returned by create_file_tree share a
\* dst_path (of several proposals for one destination only the first is kept).
C11_DstPathsUnique ==
    tr_pc = "returned" =>
        \A i, j \in 1..Len(Proposals(file_tree)) :
            i < j => DstPath(Proposals(file_tree)[i]) /= DstPath(Proposals(file_tree)[j])

\* A reply that is a well-formed object with a files list
WellFormedPlan(content) ==
    /\ ReplyJson(content).ok
    /\ ReplyJson(content).val.kind = "obj"
    /\ DictHas(ReplyJson(content).val, K_files)
    /\ DictGet(ReplyJson(content).val, K_files).kind = "arr"

\* C13: when the reply is a well-formed object with a files list, the plan
\* create_file_tree returns is that list: the proposals in the order the model
\* gave them, each with its src_path and dst_path unchanged.
C13_PlanFollowsModelOrder ==
    tr_pc \in {"returned", "raised"} /\ tr_completion.exc = "none"
      /\ WellFormedPlan(Strip(tr_completion.val)) =>
        /\ tr_pc = "returned"
        /\ file_tree = DictGet(ReplyJson(Strip(tr_completion.val)).val, K_files)

\* C13 witness: a plan of two proposals, listed b.txt before a.txt, was
\* returned for the summaries of a.txt and b.txt.
C13_Witness ==
    /\ tr_pc = "returned" /\ tr_completion.exc = "none"
    /\ WellFormedPlan(Strip(tr_completion.val))
    /\ Len(tr_summaries) = 2 /\ FilePathOf(tr_summaries[1]) = Returned(JStr(RelA))
    /\ Len(Proposals(file_tree)) = 2
    /\ SrcPath(Proposals(file_tree)[1]) = Returned(JStr(RelB))
    /\ SrcPath(Proposals(file_tree)[2]) = Returned(JStr(RelA))

\* A proposal is a no-op when it maps a path to itself; it is flagged when it
\* carries a field besides src_path and dst_path.
NoOp(p) == SrcPath(p).exc = "none" /\ SrcPath(p) = DstPath(p)
Flagged(p) ==
    p.kind = "obj" /\ \E i \in 1..Len(p.members) :
        p.members[i].key \notin {K_src_path, K_dst_path}

C14_NoOpsFlaggedOrExcluded ==
    tr_pc = "returned" =>
        \A i \in 1..Len(Proposals(file_tree)) :
            NoOp(Proposals(file_tree)[i]) => Flagged(Proposals(file_tree)[i])

\* The kinds of the raw events for a path since the last tick began, in order
RawOf(path) ==
    LET mine == SelectSeq(w_raw, LAMBDA e : e.path = path \/ e.dest = path)
    IN  [i \in 1..Len(mine) |-> mine[i].type]
\* A step that handles the move event old -> new
MoveHandled(old, new) ==
    /\ w_handled' = w_handled + 1
    /\ w_raw' = Append(w_raw, RawEvent("moved", old, new))
\* A step that begins a tick
TickBegins == w_raw /= <<>> /\ w_raw' = <<>>

\* C15: a path that is gone from the watched root has no cache entry, from
\* the state right after its delete event on; and when the result of a
\* summarization that was out at the delete arrives, the cache is left as it is.
C15_DeleteNeverLost ==
    /\ [](\A q \in WatchPaths : q \notin w_disk => ~CacheHas(h_cache, q))
    /\ [][\A q \in WatchPaths :
            w_inflight[q] = "orphaned" /\ w_inflight'[q] = "none" => h_cache' = h_cache]_vars

\* C15 witness: the late result for a deleted path has arrived and was dropped.
C15_Witness ==
    \E q \in ChangingPaths :
        /\ q \in w_discarded /\ q \notin w_disk /\ w_inflight[q] = "none"
        /\ w_calls[q] = 1 /\ RawOf(q) = <<"deleted">>

Coalesced ==
    { <<"created">>, <<"created", "modified">>, <<"created", "modified", "modified">> }

CreatedThenDeleted(q) ==
    /\ Len(RawOf(q)) >= 2
    /\ RawOf(q)[Len(RawOf(q)) - 1] = "created"
    /\ RawOf(q)[Len(RawOf(q))] = "deleted"

C19_MoveRecordedAndPublished ==
    /\ [][\A old, new \in WatchPaths :
            MoveHandled(old, new) =>
               /\ h_events' = Append(h_events, Proposal(JStr(old), JStr(new)))
               /\ Len(h_queue') = Len(h_queue) + 1
               /\ SubSeq(h_queue', 1, Len(h_queue)) = h_queue
               /\ Subscript(h_queue'[Len(h_queue')], K_files).exc = "none"
               /\ w_published' = Append(w_published, w_handled')]_vars
    /\ [](/\ Len(w_published) = Len(h_queue)
          /\ \A i, j \in 1..Len(w_published) :
               i < j /\ w_published[i] > 0 /\ w_published[j] > 0 =>
                  w_published[i] < w_published[j])

\* C19 witness: two moves were handled and their two items are on the queue.
C19_Witness ==
    /\ Len(h_events) = 2 /\ Len(h_queue) = 2
    /\ h_events[1] = Proposal(JStr(RelA), JStr(RelB))
    /\ h_events[2] = Proposal(JStr(RelB), JStr(RelA))
    /\ w_published = <<1, 2>>

\* C20: every step in which the planner's plan is put on the queue leaves the
\* move history empty.
C20_HistoryClearedAfterPlanning ==
    [][Len(h_queue') > Len(h_queue) => h_events' = <<>>]_vars
\* C23: extract_json_from_response applies its stages in order and the first
\* success wins: the parse of the whole text when the text is JSON; else the
\* parse of the text from the first "{" to the last "}" when that is JSON,
\* whatever prose or code fence surrounds it; and the synthesized record
\* (file_path and a non-empty summary, nothing else) only when both fail.
Synthesized(v) ==
    /\ v.kind = "obj" /\ Len(v.members) = 2
    /\ v.members[1].key = K_file_path /\ v.members[1].val.kind = "str"
    /\ v.members[2].key = K_summary /\ NonEmptyString(v.members[2].val)
C23_StagesInOrder ==
    ex_pc = "returned" =>
        /\ JsonLoads(ex_content).ok => ex_result = JsonLoads(ex_content).val
        /\ ~JsonLoads(ex_content).ok /\ ReplyJson(ex_content).ok =>
              ex_result = ReplyJson(ex_content).val
        /\ ~ReplyJson(ex_content).ok => Synthesized(ex_result)
\* a fenced JSON object with text after it is returned as the object
C23_Witness ==
    /\ ex_pc = "returned" /\ ~JsonLoads(ex_content).ok
    /\ Contains(ex_content, Fence) /\ Contains(ex_content, "Additional")
    /\ ex_result = SummaryObj(PathA, Notes)

\* C24: in the fallback record the path is the context's file_path when it
\* has one, else its file_name when it has one, else "unknown", also when no
\* context is given; and for free text without braces or quoted fragments,
\* longer than 10 and shorter than 500 characters, the summary is the reply
\* itself (without the whitespace around it).
ContextPath(doc) ==
    IF doc.kind = "obj" /\ DictHas(doc, K_file_path) THEN DictGet(doc, K_file_path)
    ELSE IF doc.kind = "obj" /\ DictHas(doc, K_file_name) THEN DictGet(doc, K_file_name)
    ELSE JStr(<<"unknown">>)
PlainText(content) ==
    ~Contains(content, "{") /\ ~Contains(content, "}") /\ ~Contains(content, "'")
C25_CleanedTextWithinLimitsInclusive ==
    ex_pc = "returned" /\ ~ReplyJson(ex_content).ok =>
        IF TextLen(CleanContent(ex_content)) \in 10..500
        THEN SummaryOf(ex_result) = Returned(JStr(CleanContent(ex_content)))
        ELSE /\ SummaryOf(ex_result) /= Returned(JStr(CleanContent(ex_content)))
             /\ NonEmptyString(SummaryOf(ex_result).val)

\* C27: on the same text document and the same model reply the single-file
\* path (summarize_document_sync) and the batch path (summarize_document) end
\* the same way, with the same record.
C27_SyncEqualsBatch ==
    ex_batch /= NotCalled /\ ex_single /= NotCalled => ex_single = ex_batch

\* C26: load_documents yields exactly one document per file under the root,
\* also for a file the reader splits into several parts, so that
\* get_dir_summaries returns one record per file and no two returned records
\* share a file_path.
C26_OneDocumentPerFile ==
    entry = "get_dir_summaries" /\ (\A k \in 1..Len(files) : files[k].readable) =>
        /\ pc \in {"gather", "returned"} => Len(documents) = Len(files)
        /\ pc = "returned" =>
             /\ Len(summaries) = Len(files)
             /\ \A i, j \in 1..Len(summaries) :
                   i /= j => FilePathOf(summaries[i]) /= FilePathOf(summaries[j])

\* C28: for every model reply and summaries that each have a file_path,
\* create_file_tree does not raise and returns a list whose every element is
\* a record with src_path and dst_path.
C28_AlwaysReturnsProposalList ==
    (\A k \in 1..Len(tr_summaries) : DictHas(tr_summaries[k], K_file_path)) =>
        /\ tr_pc /= "raised"
        /\ tr_pc = "returned" =>
             /\ file_tree.kind = "arr"
             /\ \A i \in 1..Len(file_tree.items) :
                   /\ file_tree.items[i].kind = "obj"
                   /\ DictHas(file_tree.items[i], K_src_path)
                   /\ DictHas(file_tree.items[i], K_dst_path)

\* C21: a processing tick that finds nothing changed since the previous tick
\* (no event handled since, hence no stale path and no new move) is a no-op:
\* as long as no event arrives the engine stays idle, issues no summarization
\* call, calls no planner and publishes nothing.
Quiescent == w_pc = "idle" /\ w_raw = <<>>
C21_QuiescentTickIsNoOp ==
    /\ [](Quiescent => Stale = {} /\ h_events = <<>>)
    /\ [][Quiescent /\ w_handled' = w_handled =>
            /\ Quiescent'
            /\ UNCHANGED <<w_calls, h_cache, h_events, h_queue, w_published>>]_vars
\* a tick was skipped after an earlier tick had published a plan
C21_Witness == w_skipped /\ w_handled > 0 /\ h_queue /= <<>> /\ w_published[Len(w_published)] = 0

\* C22: once set_summaries has completed, the handler's summaries list is the
\* result of the directory scan and the cache holds exactly one entry per
\* scanned record, under that record's file_path and holding that record; a
\* freshly constructed handler has an empty event history.
C22_SetSummariesFillsCache ==
    /\ w_pc = "new" => h_events = <<>>
    /\ w_pc = "idle" /\ w_handled = 0 =>
          /\ h_summaries = ScanOf({ q \in WatchPaths : w_state[q] = "known" })
          /\ Len(h_cache) = Len(h_summaries)
          /\ \A i \in 1..Len(h_summaries) :
                /\ CacheHas(h_cache, FilePathOf(h_summaries[i]).val.text)
                /\ CacheGet(h_cache, FilePathOf(h_summaries[i]).val.text) = h_summaries[i]
\* a scan of two files, as in test_handler_set_summaries
C22_Witness ==
    /\ w_pc = "idle" /\ w_handled = 0 /\ Len(h_summaries) = 2 /\ Len(h_cache) = 2
    /\ CacheHas(h_cache, RelA)
    /\ SummaryOf(CacheGet(h_cache, RelA)) = Returned(JStr(Notes))

====
